---- MODULE Spec2Model ----
(***************************************************************************)
(* A model of the InSAR/GNSS workflow: master.py (the script runner) and   *)
(* plot_combined_time_series.py (GNSS loading, spatial matching, temporal  *)
(* averaging, trend fitting, outlier filtering, the per-station loops).    *)
(*                                                                         *)
(* Numbers.  A float is modelled as an exact rational <<n, d>> (d > 0, in  *)
(* lowest terms) or as NaN, the empty tuple.  Coordinates are integers in  *)
(* microdegrees, distances and radii are integers in micrometres.  All     *)
(* points and stations of the model lie on the equator or share a          *)
(* longitude close to it, where both distance functions of the program     *)
(* reduce to (metres per degree) * (angle): 111195 um per microdegree on   *)
(* the sphere of radius 6371000 m, and on the WGS-84 ellipsoid 111319 um   *)
(* per microdegree of longitude and 110574 um per microdegree of latitude. *)
(***************************************************************************)
EXTENDS Integers, Sequences, FiniteSets, TLC

\* ------------------------------------------------------------------ bounds
MaxPoints == 3
MaxStations == 3
MaxLines == 3
MaxFilterRows == 5

\* --------------------------------------------------------------- state
\* One matching call (the vectorised matcher, the point-by-point matcher).
VARIABLES mt_csv, mt_station, mt_radius, mt_df, mt_ts, mt_avg, mt_vm

matchVars == << mt_csv, mt_station, mt_radius, mt_df, mt_ts, mt_avg, mt_vm >>

\* One call of load_gnss_data: the file's lines, the loop position, the rows
\* collected and the warnings printed so far, the outcome.
VARIABLES g_file, g_i, g_data, g_out

gnssVars == << g_file, g_i, g_data, g_out >>

\* master.py: the position in the list of scripts, the calls of run_script so
\* far, the log file, the console, the elapsed seconds.
VARIABLES ms_pc, ms_i, ms_runs, ms_log, ms_console, ms_elapsed

masterVars == << ms_pc, ms_i, ms_runs, ms_log, ms_console, ms_elapsed >>

\* The velocity maps of __main__: the table, the DataFrame loaded from it,
\* the result of the regional filter and of the per-station filter.
VARIABLES f_csv, f_df, f_regional, f_station

filterVars == << f_csv, f_df, f_regional, f_station >>

\* plot_combined_time_series: the station list, the files glob finds for each
\* station name, the two InSAR tables, the loop position, the plots saved,
\* the console.
VARIABLES ts_stations, ts_files, ts_before_csv, ts_after_csv,
          ts_pc, ts_idx, ts_plots, ts_printed

tsVars == << ts_stations, ts_files, ts_before_csv, ts_after_csv,
             ts_pc, ts_idx, ts_plots, ts_printed >>

vars == << tsVars, matchVars, gnssVars, filterVars, masterVars >>

\* What each component leaves alone: the state of the others.
notTs == << matchVars, gnssVars, filterVars, masterVars >>
notMatch == << tsVars, gnssVars, filterVars, masterVars >>
notGnss == << tsVars, matchVars, filterVars, masterVars >>
notFilter == << tsVars, matchVars, gnssVars, masterVars >>
notMaster == << tsVars, matchVars, gnssVars, filterVars >>

\* ------------------------------------------------------------- arithmetic
NaN == <<>>

IsNaN(x) == x = NaN

Abs(i) == IF i < 0 THEN -i ELSE i

RECURSIVE GCD(_, _)
GCD(a, b) == IF b = 0 THEN a ELSE GCD(b, a % b)

Rat(n, d) ==
    LET s == IF d < 0 THEN -1 ELSE 1
        g == GCD(Abs(n), Abs(d))
    IN  << (s * n) \div g, (s * d) \div g >>

Num(i) == << i, 1 >>

\* Exact arithmetic; common factors are cancelled before multiplying.
RatAdd(a, b) ==
    LET g == GCD(a[2], b[2])
    IN  Rat(a[1] * (b[2] \div g) + b[1] * (a[2] \div g), (a[2] \div g) * b[2])
RatNeg(a) == << -a[1], a[2] >>
RatSub(a, b) == RatAdd(a, RatNeg(b))
RatMul(a, b) ==
    LET g1 == GCD(Abs(a[1]), b[2])
        g2 == GCD(Abs(b[1]), a[2])
    IN  IF a[1] = 0 \/ b[1] = 0 THEN << 0, 1 >>
        ELSE Rat((a[1] \div g1) * (b[1] \div g2), (a[2] \div g2) * (b[2] \div g1))
RatDiv(a, b) == RatMul(a, Rat(b[2], b[1]))
RatLe(a, b) == a[1] * b[2] <= b[1] * a[2]

\* Float comparison: any comparison with NaN is False.
FloatLe(a, b) == ~IsNaN(a) /\ ~IsNaN(b) /\ RatLe(a, b)
FloatGe(a, b) == FloatLe(b, a)

Range(s) == { s[i] : i \in DOMAIN s }

SeqsUpTo(S, n) == UNION { [1..k -> S] : k \in 0..n }

\* df[mask]: the rows whose mask entry is True, in their original order.
RECURSIVE BoolIndex(_, _)
BoolIndex(rows, mask) ==
    IF rows = << >> THEN << >>
    ELSE LET rest == BoolIndex(Tail(rows), Tail(mask))
         IN  IF Head(mask) THEN << Head(rows) >> \o rest ELSE rest

\* The positions (1-based) a boolean mask selects.
Selected(mask) == { i \in DOMAIN mask : mask[i] }

\* Series.mean() / DataFrame.mean(): NaN entries are skipped (skipna=True);
\* the mean of no present value is NaN.
RECURSIVE SumPresent(_)
SumPresent(vals) ==
    IF vals = << >> THEN Num(0)
    ELSE IF IsNaN(Head(vals)) THEN SumPresent(Tail(vals))
    ELSE RatAdd(Head(vals), SumPresent(Tail(vals)))

CountPresent(vals) == Cardinality({ i \in DOMAIN vals : ~IsNaN(vals[i]) })

MeanCountingMissing(vals) ==
    IF vals = << >> THEN NaN
    ELSE RatDiv(SumPresent(vals), Num(Len(vals)))

mean(vals) ==
    IF CountPresent(vals) = 0 THEN NaN
    ELSE RatDiv(SumPresent(vals), Num(CountPresent(vals)))

\* --------------------------------------------------------- InSAR datasets
\* A dataset is a sequence of rows; a row maps each column name to a value.
Columns == << "pid", "latitude", "longitude", "temporal_coherence",
              "20200101", "height", "20200201" >>

DigitStrings == { "20200101", "20200201" }

\* str.isdigit() over the column names of the model.
isdigit(col) == col \in DigitStrings

time_columns_of(cols) == SelectSeq(cols, isdigit)

Row(pid, lat, lon, coh, d1, d2) ==
    [ c \in Range(Columns) |->
        CASE c = "pid" -> pid
          [] c = "latitude" -> lat
          [] c = "longitude" -> lon
          [] c = "temporal_coherence" -> coh
          [] c = "20200101" -> d1
          [] c = "height" -> 0
          [] c = "20200201" -> d2 ]

\* df[time_columns].mean(): one mean per time column, in column order.
ColumnMeans(rows, tcols) ==
    [ k \in 1..Len(tcols) |-> mean([ i \in 1..Len(rows) |-> rows[i][tcols[k]] ]) ]

\* df[time_columns].mean(axis=1): one mean per row, in row order.
RowMeans(rows, tcols) ==
    [ i \in 1..Len(rows) |-> mean([ k \in 1..Len(tcols) |-> rows[i][tcols[k]] ]) ]

\* ------------------------------------------------------------- distances
SphereUmPerUdeg == 111195
EllipsoidLonUmPerUdeg == 111319
EllipsoidLatUmPerUdeg == 110574

\* The haversine distance (in um) on the sphere of radius 6371000 m.
haversine_distance_vectorized(lat1, lon1, lat2, lon2) ==
    CASE lat1 = lat2 -> SphereUmPerUdeg * Abs(lon2 - lon1)
      [] lon1 = lon2 -> SphereUmPerUdeg * Abs(lat2 - lat1)

fast_haversine(lat1, lon1, coords) ==
    [ i \in 1..Len(coords) |->
        CASE lat1 = coords[i][1] -> SphereUmPerUdeg * Abs(coords[i][2] - lon1)
          [] lon1 = coords[i][2] -> SphereUmPerUdeg * Abs(coords[i][1] - lat1) ]

\* geopy.distance.geodesic(...).meters: the WGS-84 geodesic (in um).
geodesic(lat1, lon1, lat2, lon2) ==
    CASE lat1 = lat2 -> EllipsoidLonUmPerUdeg * Abs(lon2 - lon1)
      [] lon1 = lon2 -> EllipsoidLatUmPerUdeg * Abs(lat2 - lat1)

\* A DataFrame: its column names in order, and its rows in order.
DataFrame(cols, rows) == [ columns |-> cols, rows |-> rows ]

\* pd.read_csv: a fresh DataFrame holding the table of the file.
read_csv(csv) == DataFrame(Columns, csv)

\* Global parameters (coherence in hundredths, radius in um).
MIN_TEMPORAL_COHERENCE == 70
INSAR_RADIUS == 500000000

coherence_filter_off(df) == df

\* df[df["temporal_coherence"] >= MIN_TEMPORAL_COHERENCE]
coherence_filter(df) ==
    DataFrame(df.columns,
              BoolIndex(df.rows,
                        [ i \in 1..Len(df.rows) |->
                            df.rows[i]["temporal_coherence"] >= MIN_TEMPORAL_COHERENCE ]))

\* -------------------------------------------- spatial matcher and averager
RadiusMaskStrict(distances, radius) ==
    [ i \in DOMAIN distances |-> distances[i] < radius ]

\* distances <= radius
RadiusMask(distances, radius) ==
    [ i \in DOMAIN distances |-> distances[i] <= radius ]

find_insar_average_within_radius(insar_df, station_lat, station_lon, radius) ==
    LET distances == [ i \in 1..Len(insar_df.rows) |->
                         haversine_distance_vectorized(
                             station_lat, station_lon,
                             insar_df.rows[i]["latitude"],
                             insar_df.rows[i]["longitude"]) ]
        mask == RadiusMask(distances, radius)
        within_radius == BoolIndex(insar_df.rows, mask)
        time_columns == time_columns_of(insar_df.columns)
    IN  [ mask |-> mask,
          within_radius |-> within_radius,
          time_columns |-> time_columns,
          mean |-> ColumnMeans(within_radius, time_columns) ]

\* Lines 143-146 and 174-179 for one dataset: the coordinates and time columns
\* of the coherence-filtered table, the mask and the averaged displacement.
time_series_match(df, station_lat, station_lon, radius) ==
    LET coords == [ i \in 1..Len(df.rows) |->
                      << df.rows[i]["latitude"], df.rows[i]["longitude"] >> ]
        time_columns == time_columns_of(df.columns)
        dist == fast_haversine(station_lat, station_lon, coords)
        mask == RadiusMask(dist, radius)
        selected == BoolIndex(df.rows, mask)
    IN  [ mask |-> mask,
          within_radius |-> selected,
          time_columns |-> time_columns,
          mean |-> ColumnMeans(selected, time_columns) ]

\* df["distance"] = df.apply(geodesic ...): the column is added to (or
\* overwritten in) the DataFrame the caller passed.
with_distance(df, station_lat, station_lon) ==
    LET cols == IF "distance" \in Range(df.columns) THEN df.columns
                ELSE Append(df.columns, "distance")
    IN  DataFrame(cols,
          [ i \in 1..Len(df.rows) |->
              [ c \in Range(cols) |->
                  IF c = "distance"
                  THEN geodesic(df.rows[i]["latitude"], df.rows[i]["longitude"],
                                station_lat, station_lon)
                  ELSE df.rows[i][c] ] ])

\* within_radius = df[df["distance"] <= radius]
velocity_map_within_radius(df, radius) ==
    LET mask == RadiusMask([ i \in 1..Len(df.rows) |-> df.rows[i]["distance"] ], radius)
    IN  [ mask |-> mask, within_radius |-> BoolIndex(df.rows, mask) ]

\* ------------------------------------------------ one station, one dataset
\* The inputs of a matching call: a table of up to MaxPoints points, a
\* station, a radius.  mt_df is the DataFrame __main__ loads from the table
\* and hands to plot_station_velocity_map.
P1 == Row(1, 0, 0, 90, Num(1), Num(2))
P2 == Row(2, 0, 4495, 80, Num(3), NaN)
P3 == Row(3, 4520, 0, 95, Num(2), Num(4))
P4 == Row(4, 0, 9000, 90, Num(5), Num(5))
P5 == Row(5, 0, 100, 50, Num(7), Num(7))
P6 == Row(6, 0, -200, 70, NaN, Num(1))

PointPool == { P1, P2, P3, P4, P5, P6 }

MatchStations ==
    { [ latitude |-> 0, longitude |-> 0 ],
      [ latitude |-> 0, longitude |-> 4495 ] }

Radii == { 0, INSAR_RADIUS, 503000000 }

\* The distance formulas of the model cover a point and a station that share
\* a latitude or a longitude.
Aligned(st, row) ==
    row["latitude"] = st.latitude \/ row["longitude"] = st.longitude

MatchInit ==
    /\ mt_station \in MatchStations
    /\ mt_radius \in Radii
    /\ mt_csv \in SeqsUpTo({ r \in PointPool : Aligned(mt_station, r) }, MaxPoints)
    /\ mt_df = read_csv(mt_csv)
    /\ mt_ts = << >>
    /\ mt_avg = << >>
    /\ mt_vm = << >>

MatchIdle ==
    /\ mt_station = [ latitude |-> 0, longitude |-> 0 ]
    /\ mt_radius = 0
    /\ mt_csv = << >>
    /\ mt_df = read_csv(<< >>)
    /\ mt_ts = << >>
    /\ mt_avg = << >>
    /\ mt_vm = << >>

\* plot_combined_time_series, for one station and the "before" table.
MatchTimeSeries ==
    /\ mt_ts = << >>
    /\ mt_ts' = << time_series_match(coherence_filter(read_csv(mt_csv)),
                                     mt_station.latitude, mt_station.longitude,
                                     mt_radius) >>
    /\ UNCHANGED << mt_csv, mt_station, mt_radius, mt_df, mt_avg, mt_vm >>
    /\ UNCHANGED notMatch

\* find_insar_average_within_radius on the table.
MatchFindAverage ==
    /\ mt_avg = << >>
    /\ mt_avg' = << find_insar_average_within_radius(
                        read_csv(mt_csv), mt_station.latitude,
                        mt_station.longitude, mt_radius) >>
    /\ UNCHANGED << mt_csv, mt_station, mt_radius, mt_df, mt_ts, mt_vm >>
    /\ UNCHANGED notMatch

\* filter_within_radius of plot_station_velocity_map, up to within_radius.
MatchVelocityMap ==
    /\ mt_vm = << >>
    /\ mt_df' = with_distance(mt_df, mt_station.latitude, mt_station.longitude)
    /\ mt_vm' = << velocity_map_within_radius(mt_df', mt_radius) >>
    /\ UNCHANGED << mt_csv, mt_station, mt_radius, mt_ts, mt_avg >>
    /\ UNCHANGED notMatch

MatchNext == MatchTimeSeries \/ MatchFindAverage \/ MatchVelocityMap

\* ------------------------------------------------------------ load_gnss_data
\* A line is the sequence of its whitespace-separated tokens (line.split()
\* after line.strip(); tokens are separated by one blank).
HeaderLine == << "MJD", "TIME", "North", "East", "Up", "LOS" >>
SeparatorLine == << "---" >>
UnitsLine == << "(values", "in", "mm)" >>
GoodLine1 == << "58849", "2020-01-01", "00:00:00", "1", "2", "3", "10" >>
GoodLine2 == << "58850", "2020-01-02", "00:00:00", "1", "2", "3", "12", "extra" >>
BadLine == << "58851", "2020-01-03", "00:00:00", "1", "x", "3", "4" >>
ShortLine == << "58852", "2020-01-04", "00:00:00", "1", "x" >>

LinePool == { << >>, HeaderLine, SeparatorLine, UnitsLine,
              GoodLine1, GoodLine2, BadLine, ShortLine }

\* float(token): the tokens Python parses, with their values.
FloatTable ==
    [ t \in { "58849", "58850", "58851", "58852", "1", "2", "3", "4", "10", "12" } |->
        CASE t = "58849" -> 58849 [] t = "58850" -> 58850
          [] t = "58851" -> 58851 [] t = "58852" -> 58852
          [] t = "1" -> 1 [] t = "2" -> 2 [] t = "3" -> 3 [] t = "4" -> 4
          [] t = "10" -> 10 [] t = "12" -> 12 ]

float_ok(tok) == tok \in DOMAIN FloatTable
float(tok) == Num(FloatTable[tok])

\* line.startswith('MJD'), line.startswith('---'), "in mm" in line
startswith_MJD(line) == Len(line) > 0 /\ line[1] \in { "MJD", "MJD:" }
startswith_dashes(line) == Len(line) > 0 /\ line[1] \in { "---", "-----" }
contains_in_mm(line) ==
    \E i \in 1..(Len(line) - 1) :
        line[i] \in { "in", "(in" } /\ line[i + 1] \in { "mm", "mm)" }

is_header(line) ==
    \/ Len(line) = 0
    \/ startswith_MJD(line)
    \/ startswith_dashes(line)
    \/ contains_in_mm(line)

\* The numeric fields, in the order the code converts them.
NumericFields == << 1, 4, 5, 6, 7 >>

gnss_row(parts) ==
    [ MJD |-> float(parts[1]), TIME |-> << parts[2], parts[3] >>,
      North |-> float(parts[4]), East |-> float(parts[5]),
      Up |-> float(parts[6]), LOS |-> float(parts[7]) ]

\* One iteration of the loop over the file (lines 73-89).
gnss_step(st, line) ==
    IF is_header(line) THEN st
    ELSE IF Len(line) >= 7
    THEN IF \A k \in Range(NumericFields) : float_ok(line[k])
         THEN [ st EXCEPT !.data = Append(@, gnss_row(line)) ]
         ELSE [ st EXCEPT !.printed = Append(@, line) ]
    ELSE st

gnss_start == [ data |-> << >>, printed |-> << >> ]

\* Lines 90-97: the DataFrame, the empty check, DATE and decimal_year.  DATE
\* is kept as the day number; decimal_year = (days since the first row) / 365.25.
gnss_finish(st) ==
    IF st.data = << >>
    THEN [ raised |-> TRUE, rows |-> << >>, printed |-> st.printed ]
    ELSE [ raised |-> FALSE,
           rows |-> [ i \in 1..Len(st.data) |->
                        [ MJD |-> st.data[i].MJD, TIME |-> st.data[i].TIME,
                          North |-> st.data[i].North, East |-> st.data[i].East,
                          Up |-> st.data[i].Up, LOS |-> st.data[i].LOS,
                          DATE |-> st.data[i].MJD,
                          decimal_year |->
                              RatDiv(RatSub(st.data[i].MJD, st.data[1].MJD),
                                     Rat(1461, 4)) ] ],
           printed |-> st.printed ]

RECURSIVE gnss_loop(_, _)
gnss_loop(st, lines) ==
    IF lines = << >> THEN st
    ELSE gnss_loop(gnss_step(st, Head(lines)), Tail(lines))

load_gnss_data(lines) == gnss_finish(gnss_loop(gnss_start, lines))

GnssInit ==
    /\ g_file \in SeqsUpTo(LinePool, MaxLines)
    /\ g_i = 1
    /\ g_data = gnss_start
    /\ g_out = << >>

GnssIdle ==
    /\ g_file = << >>
    /\ g_i = 1
    /\ g_data = gnss_start
    /\ g_out = << >>

\* for line in f: one line is read and handled.
GnssReadLine ==
    /\ g_out = << >>
    /\ g_i <= Len(g_file)
    /\ g_data' = gnss_step(g_data, g_file[g_i])
    /\ g_i' = g_i + 1
    /\ UNCHANGED << g_file, g_out >>
    /\ UNCHANGED notGnss

\* The end of the file: the DataFrame is built, or ValueError is raised.
GnssFinish ==
    /\ g_out = << >>
    /\ g_i > Len(g_file)
    /\ g_out' = << gnss_finish(g_data) >>
    /\ UNCHANGED << g_file, g_i, g_data >>
    /\ UNCHANGED notGnss

GnssNext == GnssReadLine \/ GnssFinish

\* ------------------------------------------------------------ outlier filter
FloatSub(a, b) == IF IsNaN(a) \/ IsNaN(b) THEN NaN ELSE RatSub(a, b)
FloatAdd(a, b) == IF IsNaN(a) \/ IsNaN(b) THEN NaN ELSE RatAdd(a, b)
FloatMul(a, b) == IF IsNaN(a) \/ IsNaN(b) THEN NaN ELSE RatMul(a, b)

RECURSIVE Insert(_, _)
Insert(x, sorted) ==
    IF sorted = << >> THEN << x >>
    ELSE IF RatLe(x, Head(sorted)) THEN << x >> \o sorted
    ELSE << Head(sorted) >> \o Insert(x, Tail(sorted))

RECURSIVE Sort(_)
Sort(vals) == IF vals = << >> THEN << >> ELSE Insert(Head(vals), Sort(Tail(vals)))

DropNaN(vals) == SelectSeq(vals, LAMBDA v : ~IsNaN(v))

\* Series.quantile(q), q = qn/qd: NaN entries are dropped; the value at
\* position (n-1)*q of the sorted values, linearly interpolated.
quantile(vals, qn, qd) ==
    LET v == Sort(DropNaN(vals))
        n == Len(v)
        lo == ((n - 1) * qn) \div qd
        rem == ((n - 1) * qn) % qd
    IN  IF n = 0 THEN NaN
        ELSE IF rem = 0 THEN v[lo + 1]
        ELSE RatAdd(v[lo + 1],
                    RatMul(RatSub(v[lo + 2], v[lo + 1]), Rat(rem, qd)))

\* (velocities >= lower_bound) & (velocities <= upper_bound), with
\* lower_bound = q1 - k*iqr and upper_bound = q3 + k*iqr.
iqr_mask_open(velocities, k) ==
    LET q1 == quantile(velocities, 1, 4)
        q3 == quantile(velocities, 3, 4)
        iqr == FloatSub(q3, q1)
        lower_bound == FloatSub(q1, FloatMul(k, iqr))
        upper_bound == FloatAdd(q3, FloatMul(k, iqr))
    IN  [ i \in DOMAIN velocities |->
            /\ FloatGe(velocities[i], lower_bound) /\ velocities[i] # lower_bound
            /\ FloatLe(velocities[i], upper_bound) /\ velocities[i] # upper_bound ]

iqr_mask(velocities, k) ==
    LET q1 == quantile(velocities, 1, 4)
        q3 == quantile(velocities, 3, 4)
        iqr == FloatSub(q3, q1)
        lower_bound == FloatSub(q1, FloatMul(k, iqr))
        upper_bound == FloatAdd(q3, FloatMul(k, iqr))
    IN  [ i \in DOMAIN velocities |->
            FloatGe(velocities[i], lower_bound) /\ FloatLe(velocities[i], upper_bound) ]

\* plot_global_velocity_map.filter_normal_points: k = 2.0
filter_normal_points(df) ==
    LET time_columns == time_columns_of(df.columns)
        velocities == RowMeans(df.rows, time_columns)
        mask == iqr_mask(velocities, Rat(2, 1))
    IN  [ normal_points |-> BoolIndex(df.rows, mask),
          normal_velocities |-> BoolIndex(velocities, mask) ]

\* plot_station_velocity_map.filter_within_radius: k = 1.5.  df is the
\* DataFrame after df["distance"] was assigned.
filter_within_radius(df, radius) ==
    LET within_radius == velocity_map_within_radius(df, radius).within_radius
        time_columns == time_columns_of(df.columns)
        velocities == RowMeans(within_radius, time_columns)
        mask == iqr_mask(velocities, Rat(3, 2))
    IN  [ within_radius |-> within_radius,
          normal_points |-> BoolIndex(within_radius, mask),
          normal_velocities |-> BoolIndex(velocities, mask) ]

FilterPool ==
    { Row(1, 0, 0, 90, Num(1), Num(1)),
      Row(2, 0, 100, 90, Num(2), Num(2)),
      Row(3, 0, 200, 90, NaN, Num(3)),
      Row(4, 0, 300, 90, Num(3), Num(5)),
      Row(5, 0, 400, 90, Num(100), Num(100)),
      Row(6, 0, 9000, 90, NaN, NaN) }

FilterStation == [ latitude |-> 0, longitude |-> 0 ]

FilterInit ==
    /\ f_csv \in SeqsUpTo(FilterPool, MaxFilterRows)
    /\ f_df = read_csv(f_csv)
    /\ f_regional = << >>
    /\ f_station = << >>

FilterIdle ==
    /\ f_csv = << >>
    /\ f_df = read_csv(<< >>)
    /\ f_regional = << >>
    /\ f_station = << >>

\* __main__ line 367: the regional map filters the DataFrame.
FilterRegional ==
    /\ f_regional = << >>
    /\ f_regional' = << filter_normal_points(f_df) >>
    /\ UNCHANGED << f_csv, f_df, f_station >>
    /\ UNCHANGED notFilter

\* __main__ line 371: the per-station map, for one station.
FilterPerStation ==
    /\ f_regional # << >>
    /\ f_station = << >>
    /\ f_df' = with_distance(f_df, FilterStation.latitude, FilterStation.longitude)
    /\ f_station' = << filter_within_radius(f_df', INSAR_RADIUS) >>
    /\ UNCHANGED << f_csv, f_regional >>
    /\ UNCHANGED notFilter

FilterNext == FilterRegional \/ FilterPerStation

\* ------------------------------------------------- plot_combined_time_series
RECURSIVE SeqSum(_)
SeqSum(vals) == IF vals = << >> THEN Num(0) ELSE RatAdd(Head(vals), SeqSum(Tail(vals)))

Undefined == [ raised |-> FALSE, slope |-> NaN, intercept |-> NaN ]

\* scipy.stats.linregress(x, y): ValueError on empty input and on more than
\* one point with identical x; NaN slope and intercept when a value is NaN or
\* there is a single point (0/0); the least-squares line otherwise.
linregress(x, y) ==
    LET n == Len(x)
    IN  IF n = 0 \/ Len(y) # n
        THEN [ raised |-> TRUE, slope |-> NaN, intercept |-> NaN ]
        ELSE IF n > 1 /\ \A i \in 1..n : x[i] = x[1]
        THEN [ raised |-> TRUE, slope |-> NaN, intercept |-> NaN ]
        ELSE IF n < 2 \/ \E i \in 1..n : IsNaN(y[i])
        THEN Undefined
        ELSE LET sx == SeqSum(x)
                 sy == SeqSum(y)
                 sxy == SeqSum([ i \in 1..n |-> RatMul(x[i], y[i]) ])
                 sxx == SeqSum([ i \in 1..n |-> RatMul(x[i], x[i]) ])
                 slope == RatDiv(RatSub(RatMul(Num(n), sxy), RatMul(sx, sy)),
                                 RatSub(RatMul(Num(n), sxx), RatMul(sx, sx)))
             IN  [ raised |-> FALSE,
                   slope |-> slope,
                   intercept |-> RatDiv(RatSub(sy, RatMul(slope, sx)), Num(n)) ]

\* The number of values of a series that are not NaN.
ValidPoints(y) == CountPresent(y)

StationA == [ Station |-> "A", latitude |-> 0, longitude |-> 0 ]
StationB == [ Station |-> "B", latitude |-> 0, longitude |-> 4495 ]
StationC == [ Station |-> "C", latitude |-> 0, longitude |-> 15000 ]

StationPool == { StationA, StationB, StationC }

StationNames == { st.Station : st \in StationPool }

\* GNSS files: no data row, one data row, two data rows around a bad line.
FileNoRows == << HeaderLine, SeparatorLine, BadLine >>
FileOneRow == << HeaderLine, GoodLine1 >>
FileTwoRows == << HeaderLine, UnitsLine, GoodLine1, BadLine, GoodLine2 >>

\* What glob.glob returns for a station's pattern: no file, or one file.
GlobResults == { << >>, << FileNoRows >>, << FileOneRow >>, << FileTwoRows >> }

TablePool == { << P1, P5, P2 >>, << P4 >>, << P6, P1 >> }

Distinct(seq) == \A i, j \in DOMAIN seq : i # j => seq[i].Station # seq[j].Station

TsStart ==
    /\ ts_stations \in { q \in SeqsUpTo(StationPool, MaxStations) : Distinct(q) }
    /\ ts_files \in { f \in [ StationNames -> GlobResults ] :
                        \A n \in StationNames :
                            (\A i \in DOMAIN ts_stations : ts_stations[i].Station # n)
                                => f[n] = << >> }
    /\ ts_before_csv \in TablePool
    /\ ts_after_csv \in TablePool
    /\ ts_pc = "loop"
    /\ ts_idx = 1
    /\ ts_plots = << >>
    /\ ts_printed = << >>

\* The body of the loop over the stations (lines 149-217) for one station:
\* "skipped" (continue), "raised" (an exception leaves the function) or
\* "saved" (the figure was written), with what was printed.
process_station(station, gnss_files, before_df, after_df) ==
    LET name == station.Station
        before == time_series_match(before_df, station.latitude,
                                    station.longitude, INSAR_RADIUS)
        after == time_series_match(after_df, station.latitude,
                                   station.longitude, INSAR_RADIUS)
        gnss_data == load_gnss_data(gnss_files[1])
        using == << << "Using GNSS file", name >> >>
        warned == using \o [ k \in 1..Len(gnss_data.printed) |->
                               << "Skipping invalid line", gnss_data.printed[k] >> ]
        time_dates == before.time_columns
        x == [ k \in 1..Len(time_dates) |-> Num(k - 1) ]
        fit_before == linregress(x, before.mean)
        fit_after == linregress(x, after.mean)
        los == [ k \in 1..Len(gnss_data.rows) |-> gnss_data.rows[k].LOS ]
        fit_gnss == linregress([ k \in 1..Len(gnss_data.rows) |->
                                   gnss_data.rows[k].decimal_year ], los)
    IN  IF gnss_files = << >>
        THEN [ kind |-> "skipped",
               printed |-> << << "GNSS file not found", name >> >> ]
        ELSE IF gnss_data.raised
        THEN [ kind |-> "raised", printed |-> warned ]
        ELSE IF fit_before.raised \/ fit_after.raised \/ fit_gnss.raised
        THEN [ kind |-> "raised", printed |-> warned ]
        ELSE [ kind |-> "saved",
               printed |-> Append(warned, << "Combined time series plot saved", name >>),
               plot |-> [ station |-> name,
                          trend_lines |-> { "before", "after", "gnss" },
                          time_dates |-> time_dates,
                          before_points |-> before.within_radius,
                          after_points |-> after.within_radius,
                          before_displacement |-> before.mean,
                          trend_before |-> << fit_before.slope, fit_before.intercept >>,
                          after_displacement |-> after.mean,
                          trend_after |-> << fit_after.slope, fit_after.intercept >>,
                          gnss_los |-> los,
                          trend_gnss |-> << fit_gnss.slope, fit_gnss.intercept >> ] ]

\* One iteration of "for idx, station in stations_df.iterrows()".
TsProcessStation ==
    /\ ts_pc = "loop"
    /\ ts_idx <= Len(ts_stations)
    /\ LET st == ts_stations[ts_idx]
           r == process_station(st, ts_files[st.Station],
                                coherence_filter(read_csv(ts_before_csv)),
                                coherence_filter(read_csv(ts_after_csv)))
       IN  /\ ts_printed' = ts_printed \o r.printed
           /\ ts_plots' = IF r.kind = "saved" THEN Append(ts_plots, r.plot) ELSE ts_plots
           /\ ts_pc' = IF r.kind = "raised" THEN "raised" ELSE "loop"
           /\ ts_idx' = IF r.kind = "raised" THEN ts_idx ELSE ts_idx + 1
    /\ UNCHANGED << ts_stations, ts_files, ts_before_csv, ts_after_csv >>
    /\ UNCHANGED notTs

\* The station list is exhausted: plot_combined_time_series returns.
TsLoopEnd ==
    /\ ts_pc = "loop"
    /\ ts_idx > Len(ts_stations)
    /\ ts_pc' = "done"
    /\ UNCHANGED << ts_stations, ts_files, ts_before_csv, ts_after_csv,
                    ts_idx, ts_plots, ts_printed >>
    /\ UNCHANGED notTs

TsNext == TsProcessStation \/ TsLoopEnd

\* ------------------------------------------------------------------ master.py
scripts ==
    << "gnss_3d_vels.py", "filter_insar_save_parameters.py",
       "fit_plane_correct_insar.py", "gnss_los_displ.py",
       "plot_combined_time_series.py", "grid_amplitude_analysis.py" >>

\* What can happen in one call of run_script: open(log_file) raises; or
\* subprocess.run raises (no process was created); or the script runs to its
\* return code and then either the log is written or a log.write raises.
RunOutcomes ==
    { [ at |-> "open", rc |-> 0 ], [ at |-> "spawn", rc |-> 0 ] }
    \cup { [ at |-> "write", rc |-> r ] : r \in { 0, 1 } }
    \cup { [ at |-> "none", rc |-> r ] : r \in { 0, 1, 2 } }

Durations == { 10, 40 }

run_script_ignoring_returncode(script, o) ==
    [ script |-> script,
      started |-> o.at \in { "write", "none" },
      rc |-> o.rc,
      exception |-> o.at # "none",
      logged |-> IF o.at = "none" THEN << << "Running", script >>, << "output", script >> >>
                 ELSE << >>,
      printed |-> IF o.at # "none" THEN << "Error while executing", script >>
                  ELSE << "executed successfully", script >>,
      success |-> o.at = "none" ]

\* run_script(script) under outcome o: what it did and what it returns.
run_script(script, o) ==
    [ script |-> script,
      started |-> o.at \in { "write", "none" },
      rc |-> o.rc,
      exception |-> o.at # "none",
      logged |-> IF o.at = "none" THEN << << "Running", script >>, << "output", script >> >>
                 ELSE << >>,
      printed |-> IF o.at # "none" THEN << "Error while executing", script >>
                  ELSE IF o.rc # 0 THEN << "Error in", script >>
                  ELSE << "executed successfully", script >>,
      success |-> o.at = "none" /\ o.rc = 0 ]

MasterInit ==
    /\ ms_pc = "loop"
    /\ ms_i = 1
    /\ ms_runs = << >>
    /\ ms_log = << >>
    /\ ms_console = << >>
    /\ ms_elapsed = 0

MasterIdle ==
    /\ ms_pc = "idle"
    /\ ms_i = 1
    /\ ms_runs = << >>
    /\ ms_log = << >>
    /\ ms_console = << >>
    /\ ms_elapsed = 0

\* One iteration of "for script in scripts": run_script, then break on failure.
MasterRunScript ==
    /\ ms_pc = "loop"
    /\ ms_i <= Len(scripts)
    /\ \E o \in RunOutcomes, d \in Durations :
         LET r == run_script(scripts[ms_i], o)
         IN  /\ ms_runs' = Append(ms_runs, r)
             /\ ms_log' = ms_log \o r.logged
             /\ ms_elapsed' = ms_elapsed + (IF r.started THEN d ELSE 0)
             /\ IF r.success
                THEN /\ ms_console' = Append(ms_console, r.printed)
                     /\ ms_i' = ms_i + 1
                     /\ ms_pc' = "loop"
                ELSE /\ ms_console' = ms_console \o
                            << r.printed, << "Workflow aborted due to error." >> >>
                     /\ ms_i' = ms_i
                     /\ ms_pc' = "report"
    /\ UNCHANGED notMaster

\* The list is exhausted: the loop ends.
MasterLoopEnd ==
    /\ ms_pc = "loop"
    /\ ms_i > Len(scripts)
    /\ ms_pc' = "report"
    /\ UNCHANGED << ms_i, ms_runs, ms_log, ms_console, ms_elapsed >>
    /\ UNCHANGED notMaster

\* Lines 87-92: the total runtime is printed.
MasterReport ==
    /\ ms_pc = "report"
    /\ ms_console' = Append(ms_console,
                            IF ms_elapsed < 60 THEN << "Total runtime (seconds)" >>
                            ELSE << "Total runtime (minutes)" >>)
    /\ ms_pc' = "done"
    /\ UNCHANGED << ms_i, ms_runs, ms_log, ms_elapsed >>
    /\ UNCHANGED notMaster

MasterNext == MasterRunScript \/ MasterLoopEnd \/ MasterReport

\* ---------------------------------------------------------- specifications
TsIdle ==
    /\ ts_stations = << >>
    /\ ts_files = << >>
    /\ ts_before_csv = << >>
    /\ ts_after_csv = << >>
    /\ ts_pc = "idle"
    /\ ts_idx = 1
    /\ ts_plots = << >>
    /\ ts_printed = << >>

\* plot_combined_time_series on bounded inputs.
Init == TsStart /\ MatchIdle /\ GnssIdle /\ FilterIdle /\ MasterIdle
Next == TsNext
Spec == Init /\ [][Next]_vars

\* One matching call on bounded inputs.
InitMatch == MatchInit /\ TsIdle /\ GnssIdle /\ FilterIdle /\ MasterIdle
SpecMatch == InitMatch /\ [][MatchNext]_vars

\* One call of load_gnss_data on a bounded file.
InitGnss == GnssInit /\ TsIdle /\ MatchIdle /\ FilterIdle /\ MasterIdle
SpecGnss == InitGnss /\ [][GnssNext]_vars

\* The two velocity-map filters on a bounded table.
InitFilter == FilterInit /\ TsIdle /\ MatchIdle /\ GnssIdle /\ MasterIdle
SpecFilter == InitFilter /\ [][FilterNext]_vars

\* master.py from its first line to its last.
InitMaster == MasterInit /\ TsIdle /\ MatchIdle /\ GnssIdle /\ FilterIdle
SpecMaster == InitMaster /\ [][MasterNext]_vars

\* ================================================================== claims
\* ---- the station loop (Spec)
StationName(i) == ts_stations[i].Station
HasPlot(i) == \E k \in DOMAIN ts_plots : ts_plots[k].station = StationName(i)
NoGnssFile(i) == ts_files[StationName(i)] = << >>
GnssEmpty(i) == ~NoGnssFile(i) /\ load_gnss_data(ts_files[StationName(i)][1]).raised
GnssValid(i) == ~NoGnssFile(i) /\ ~load_gnss_data(ts_files[StationName(i)][1]).raised
Returned == ts_pc \in { "done", "raised" }

\* The loop body ran to its end for station i (a skip or a saved plot).
Processed(i) == i < ts_idx

\* The points of a table with sufficient coherence that lie within
\* INSAR_RADIUS of station i.
PointsNear(i, csv) ==
    { k \in DOMAIN csv :
        /\ csv[k]["temporal_coherence"] >= MIN_TEMPORAL_COHERENCE
        /\ haversine_distance_vectorized(
               ts_stations[i].latitude, ts_stations[i].longitude,
               csv[k]["latitude"], csv[k]["longitude"]) <= INSAR_RADIUS }

EmptyMatch(i) == PointsNear(i, ts_before_csv) = {} \/ PointsNear(i, ts_after_csv) = {}

\* C1: when plot_combined_time_series has ended, a station that was skipped
\* for want of a GNSS file has no combined plot, and every later station of
\* the list that has a GNSS file with valid data has its combined plot.
C1_MissingFileSkippedLaterPlotted ==
    Returned =>
        \A i \in DOMAIN ts_stations :
            (Processed(i) /\ NoGnssFile(i)) =>
                /\ ~HasPlot(i)
                /\ \A j \in (i + 1)..Len(ts_stations) : GnssValid(j) => HasPlot(j)

\* C2: when plot_combined_time_series has ended, a station the loop reached
\* whose GNSS file holds no valid data row has no plot, and the loop body
\* ran for every station after it.
C2_EmptyGnssDoesNotAbort ==
    Returned =>
        \A i \in DOMAIN ts_stations :
            (i <= ts_idx /\ GnssEmpty(i)) =>
                /\ ~HasPlot(i)
                /\ \A j \in (i + 1)..Len(ts_stations) : Processed(j)

\* C3: a station with no InSAR point within the radius, in the before or in
\* the after table, is skipped: no combined plot is written for it (and the
\* run does not fail because of it).
C3_EmptyMatchSkipped ==
    \A i \in DOMAIN ts_stations :
        (EmptyMatch(i) /\ GnssValid(i)) =>
            /\ ~HasPlot(i)
            /\ (ts_pc = "raised" => ts_idx # i)

\* C4: in every plot written, a series with fewer than 2 valid points has no
\* numeric slope or intercept and no trend line drawn for it.
C4_NoTrendOnInsufficientData ==
    \A k \in DOMAIN ts_plots :
        LET p == ts_plots[k]
            Skipped(series, line, fit) ==
                ValidPoints(series) < 2 =>
                    /\ IsNaN(fit[1]) /\ IsNaN(fit[2])
                    /\ line \notin p.trend_lines
        IN  /\ Skipped(p.before_displacement, "before", p.trend_before)
            /\ Skipped(p.after_displacement, "after", p.trend_after)
            /\ Skipped(p.gnss_los, "gnss", p.trend_gnss)

\* ---- master.py (SpecMaster)
RunFailed(r) == r.exception \/ r.rc # 0

\* C5: run_script is called on the scripts in list order, and a call is made
\* only when every earlier call ran its script to return code 0 without an
\* exception; so a failed call is the last one, and the loop has ended.
C5_InOrderAbortAtFirstFailure ==
    /\ Len(ms_runs) <= Len(scripts)
    /\ ms_i \in { Len(ms_runs), Len(ms_runs) + 1 }
    /\ \A k \in DOMAIN ms_runs :
         /\ ms_runs[k].script = scripts[k]
         /\ \A j \in 1..(k - 1) : ms_runs[j].started /\ ~RunFailed(ms_runs[j])
         /\ RunFailed(ms_runs[k]) => (k = Len(ms_runs) /\ ms_pc \in { "report", "done" })

C5_Witness ==
    /\ ms_pc = "done"
    /\ Len(ms_runs) = 3
    /\ ms_runs[3].started /\ ms_runs[3].rc = 1 /\ ~ms_runs[3].exception

\* ---- one matching call (SpecMatch)
StationDistance(row) ==
    haversine_distance_vectorized(mt_station.latitude, mt_station.longitude,
                                  row["latitude"], row["longitude"])

\* res selects from rows exactly the points within mt_radius of the station.
ExactlyWithin(res, rows) ==
    LET inside == { i \in DOMAIN rows : StationDistance(rows[i]) <= mt_radius }
    IN  /\ Selected(res.mask) = inside
        /\ Range(res.within_radius) = { rows[i] : i \in inside }
        /\ Len(res.within_radius) = Cardinality(inside)

Coherent(csv) == coherence_filter(read_csv(csv)).rows

\* C6: the matcher returns exactly the points at distance <= R (a point at
\* distance R is in, a point farther than R is out), at both places that
\* match with the haversine distance, and a smaller radius selects a subset.
C6_ExactInclusiveMonotone ==
    /\ mt_avg # << >> => ExactlyWithin(mt_avg[1], mt_csv)
    /\ mt_ts # << >> => ExactlyWithin(mt_ts[1], Coherent(mt_csv))
    /\ mt_avg # << >> =>
         \A r2 \in Radii :
             mt_radius < r2 =>
                 Selected(mt_avg[1].mask) \subseteq
                     Selected(find_insar_average_within_radius(
                                  read_csv(mt_csv), mt_station.latitude,
                                  mt_station.longitude, r2).mask)

\* A point at distance exactly R was selected and a farther one was not.
C6_Witness ==
    /\ mt_avg # << >>
    /\ \E i, j \in DOMAIN mt_csv :
         /\ StationDistance(mt_csv[i]) = mt_radius
         /\ i \in Selected(mt_avg[1].mask)
         /\ StationDistance(mt_csv[j]) > mt_radius
         /\ j \notin Selected(mt_avg[1].mask)

RECURSIVE SumOver(_, _)
SumOver(f, S) ==
    IF S = {} THEN Num(0)
    ELSE LET x == CHOOSE y \in S : TRUE
         IN  RatAdd(f[x], SumOver(f, S \ { x }))

\* res.mean is, per time column and in column order, the mean of the present
\* values of the selected points.
MeanOfPresent(res) ==
    /\ res.time_columns = << "20200101", "20200201" >>
    /\ Len(res.mean) = Len(res.time_columns)
    /\ \A k \in DOMAIN res.time_columns :
         LET col == [ i \in DOMAIN res.within_radius |->
                        res.within_radius[i][res.time_columns[k]] ]
             present == { i \in DOMAIN col : ~IsNaN(col[i]) }
         IN  /\ present = {} => IsNaN(res.mean[k])
             /\ present # {} =>
                  /\ ~IsNaN(res.mean[k])
                  /\ RatMul(res.mean[k], Num(Cardinality(present))) = SumOver(col, present)
             /\ Len(col) = 1 => res.mean[k] = col[1]

\* C7: the averaged series is the mean over the present values only, aligned
\* to the time columns in their order; for a single point it is that point's
\* own values.
C7_MeanOverPresentValues ==
    /\ mt_avg # << >> => MeanOfPresent(mt_avg[1])
    /\ mt_ts # << >> => MeanOfPresent(mt_ts[1])

\* Two points were averaged, one of them with a missing value at an epoch
\* where the other has one.
C7_Witness ==
    /\ mt_ts # << >>
    /\ Len(mt_ts[1].within_radius) >= 2
    /\ \E i, j \in DOMAIN mt_ts[1].within_radius :
         /\ IsNaN(mt_ts[1].within_radius[i]["20200201"])
         /\ ~IsNaN(mt_ts[1].within_radius[j]["20200201"])

Pids(rows) == { rows[i]["pid"] : i \in DOMAIN rows }

\* C10: for the same station, radius and table (every point of it coherent
\* enough to pass the time-series routine's coherence filter), the
\* time-series routine and the per-station velocity-map routine select the
\* same points within the radius.
C10_SameSelection ==
    (/\ mt_ts # << >>
     /\ mt_vm # << >>
     /\ Coherent(mt_csv) = mt_csv)
        => Pids(mt_ts[1].within_radius) = Pids(mt_vm[1].within_radius)

\* ---- load_gnss_data (SpecGnss)
WellFormed(line) ==
    ~is_header(line) /\ Len(line) >= 7
        /\ \A k \in Range(NumericFields) : float_ok(line[k])

HasUnparsableField(line) ==
    ~is_header(line)
        /\ \E k \in Range(NumericFields) : k <= Len(line) /\ ~float_ok(line[k])

\* The lines read so far.
LinesRead == SubSeq(g_file, 1, g_i - 1)

\* C9: whatever the lines, the loop never fails; of the lines read so far,
\* the rows collected are exactly the well-formed data lines, in file order,
\* and the warnings printed are exactly the lines with an unparsable numeric
\* field, in file order.
C9_BadLinesSkippedWithWarning ==
    LET good == SelectSeq(LinesRead, WellFormed)
    IN  /\ g_data.data = [ k \in DOMAIN good |-> gnss_row(good[k]) ]
        /\ g_data.printed = SelectSeq(LinesRead, HasUnparsableField)

\* ---- the velocity-map filters (SpecFilter)
\* The velocity of a point: the mean of its present epoch values.
Velocity(row) ==
    LET present == { c \in DigitStrings : ~IsNaN(row[c]) }
    IN  IF present = {} THEN NaN
        ELSE RatDiv(SumOver(row, present), Num(Cardinality(present)))

\* v lies in [Q1 - k*IQR, Q3 + k*IQR] of the velocities vels, k = kn/kd.
InFence(v, vels, kn, kd) ==
    LET q1 == quantile(vels, 1, 4)
        q3 == quantile(vels, 3, 4)
    IN  /\ ~IsNaN(v) /\ ~IsNaN(q1) /\ ~IsNaN(q3)
        /\ RatLe(RatSub(q1, RatMul(Rat(kn, kd), RatSub(q3, q1))), v)
        /\ RatLe(v, RatAdd(q3, RatMul(Rat(kn, kd), RatSub(q3, q1))))

RECURSIVE Kept(_, _, _, _)
Kept(rows, n, kn, kd) ==
    IF n = 0 THEN << >>
    ELSE IF InFence(Velocity(rows[n]),
                    [ i \in DOMAIN rows |-> Velocity(rows[i]) ], kn, kd)
    THEN Append(Kept(rows, n - 1, kn, kd), rows[n])
    ELSE Kept(rows, n - 1, kn, kd)

\* res keeps of rows exactly the points inside the fence, in their order,
\* each with its own velocity.
FilteredBy(res, rows, kn, kd) ==
    /\ res.normal_points = Kept(rows, Len(rows), kn, kd)
    /\ res.normal_velocities =
           [ j \in DOMAIN res.normal_points |-> Velocity(res.normal_points[j]) ]

PidSeq(rows) == [ i \in DOMAIN rows |-> rows[i]["pid"] ]

\* C8: the filter keeps exactly the points whose velocity lies in
\* [Q1 - k*IQR, Q3 + k*IQR], k = 2.0 for the regional map and k = 1.5 for the
\* per-station map (there among the points within the radius), in their
\* original order and each with its own velocity; with k = 1.5 the
\* velocities 1, 2, 3, 4, 100 keep 1, 2, 3, 4.
C8_ClosedFenceSameOrder ==
    /\ f_regional # << >> => FilteredBy(f_regional[1], f_csv, 2, 1)
    /\ f_station # << >> =>
         /\ FilteredBy(f_station[1], f_station[1].within_radius, 3, 2)
         /\ (PidSeq(f_csv) = << 1, 2, 3, 4, 5 >> =>
                 /\ PidSeq(f_station[1].normal_points) = << 1, 2, 3, 4 >>
                 /\ f_station[1].normal_velocities = << Num(1), Num(2), Num(3), Num(4) >>)

\* The per-station filter ran on the velocities 1, 2, 3, 4, 100.
C8_Witness ==
    /\ f_station # << >>
    /\ PidSeq(f_csv) = << 1, 2, 3, 4, 5 >>
    /\ PidSeq(f_station[1].normal_points) = << 1, 2, 3, 4 >>

\* ---- the datasets handed to the routines (SpecMatch, SpecFilter)
\* C11: matching, averaging and outlier filtering leave the InSAR dataset
\* they were given as it was loaded from its table: the same columns, the
\* same rows and the same values after every call as before it.
C11_DatasetUnchanged ==
    /\ mt_df = read_csv(mt_csv)
    /\ f_df = read_csv(f_csv)

\* ---- the points behind the averaged series (Spec)
\* The row is coherent enough and within INSAR_RADIUS of station i.
CoherentAndNear(i, row) ==
    /\ row["temporal_coherence"] >= MIN_TEMPORAL_COHERENCE
    /\ haversine_distance_vectorized(
           ts_stations[i].latitude, ts_stations[i].longitude,
           row["latitude"], row["longitude"]) <= INSAR_RADIUS

\* C12: in plot_combined_time_series the averaged before and after series of
\* a station are the means over points that all have temporal_coherence >=
\* MIN_TEMPORAL_COHERENCE and lie within INSAR_RADIUS of that station; no
\* point below the coherence threshold enters an average.
C12_ContributorsCoherentAndNear ==
    \A k \in DOMAIN ts_plots :
        \A i \in DOMAIN ts_stations :
            ts_plots[k].station = StationName(i) =>
                LET p == ts_plots[k]
                IN  /\ \A n \in DOMAIN p.before_points :
                           CoherentAndNear(i, p.before_points[n])
                    /\ \A n \in DOMAIN p.after_points :
                           CoherentAndNear(i, p.after_points[n])
                    /\ p.before_displacement =
                           ColumnMeans(p.before_points, p.time_dates)
                    /\ p.after_displacement =
                           ColumnMeans(p.after_points, p.time_dates)

\* A plot was saved for a station that has, within INSAR_RADIUS, both points
\* that contribute and a point below the coherence threshold.
C12_Witness ==
    \E k \in DOMAIN ts_plots :
        \E i \in DOMAIN ts_stations :
            /\ ts_plots[k].station = StationName(i)
            /\ ts_plots[k].before_points # << >>
            /\ \E n \in DOMAIN ts_before_csv :
                   /\ ts_before_csv[n]["temporal_coherence"] < MIN_TEMPORAL_COHERENCE
                   /\ haversine_distance_vectorized(
                          ts_stations[i].latitude, ts_stations[i].longitude,
                          ts_before_csv[n]["latitude"],
                          ts_before_csv[n]["longitude"]) <= INSAR_RADIUS

====
